---- MODULE Spec2Model ----
(***************************************************************************)
(* Model of rustypex: the typing-test session of Rustypex::test, the       *)
(* results screen of Rustypex::display_results, the restart loop of main   *)
(* and the derived metrics of RustypexResults.                             *)
(*                                                                         *)
(* Characters are one-character strings, a Vec<char> is a sequence of      *)
(* them.  An Option<T> is a sequence of length 0 (None) or 1 (Some).       *)
(* An f64 is a record: a finite value is an exact fraction num/den with    *)
(* den > 0, the other values are NaN, +inf and -inf.  Time is counted in   *)
(* whole seconds of a clock that never runs backwards.                     *)
(***************************************************************************)
EXTENDS Integers, Sequences, FiniteSets, TLC

\* ------------------------------------------------------------------ bounds
\* Largest configured number of words of a session.
MaxWords == 2
\* Cap on the forward-keystroke counter of one session.
MaxTyped == 3
\* Last instant of the clock.
MaxTime == 1

\* --------------------------------------------------------------- vocabulary
\* The tokens of the word list: non-empty runs of non-whitespace characters.
Wordlist == { <<"a">>, <<"c", "a", "t">> }

\* A character that stands in no word of the word list.
WrongChar == "x"

\* The characters a Key::Char event carries when n characters are typed and
\* orig is the target: the expected one, a wrong one and the space.  The
\* code compares a typed character only with the target's character at its
\* own position and with ' ', so every other character acts as WrongChar.
KeyChars(orig, n) ==
    { WrongChar, " " } \cup (IF n < Len(orig) THEN { orig[n + 1] } ELSE {})

\* termion key events, as the match of process_key classifies them.
CtrlC == <<"Ctrl", "c">>
CtrlR == <<"Ctrl", "r">>
CtrlW == <<"Ctrl", "w">>
Backspace == <<"Backspace", "">>
OtherKey == <<"Other", "">>
Char(c) == <<"Char", c>>
ControlKeys == { CtrlC, CtrlR, CtrlW, Backspace, OtherKey }
Keys(orig, n) == { Char(c) : c \in KeyChars(orig, n) } \cup ControlKeys

\* What one read of the key stream yields: Some(Ok(key)), Some(Err(e)), None.
ReadError == <<"Err", "">>
EndOfInput == <<"None", "">>
NoKey == <<"", "">>
Reads(orig, n) == Keys(orig, n) \cup { ReadError, EndOfInput }

\* The adapter call of one handler that fails: 0 when none does, k when the
\* k-th call returns Err.
Fails == 0 .. 4

VARIABLES
    num_words,        \* config.num_words
    words,            \* Rustypex.words
    text,             \* Rustypex.text: the displayed chunks
    input,            \* test: input
    num_errors,       \* test: num_errors
    num_chars_typed,  \* test: num_chars_typed
    status,           \* test: status, the TestStatus of the last process_key
    started_at,       \* test: started_at (unset before the first key)
    ended_at,         \* test: ended_at (unset until the key loop is left)
    results,          \* the RustypexResults snapshot of the session, once built
    now,              \* the last instant read from the monotonic clock
    pc,               \* where the program waits or how it ended
    last_key,         \* the event handled last in this session
    prev,             \* input and counters before that event
    key_log,          \* the keys of this session, while they follow a script
    results_key,      \* the event display_results read last in this session
    failure,          \* the RustypexError that test or restart returned, if any
    prior             \* the status the session before this one ended with

vars == << num_words, words, text, input, num_errors, num_chars_typed, status,
           started_at, ended_at, results, now, pc, last_key, prev, key_log,
           results_key, failure, prior >>

\* ------------------------------------------------------------ target text
Last(s) == s[Len(s)]
Front(s) == SubSeq(s, 1, Len(s) - 1)

\* Every sequence of exactly n words of the word list.
RECURSIVE WordSeqs(_)
WordSeqs(n) ==
    IF n = 0 THEN { <<>> }
    ELSE { Append(ws, w) : ws \in WordSeqs(n - 1), w \in Wordlist }

\* word_selector.new_words(n): n words drawn with replacement.
new_words(n) == WordSeqs(n)

\* The words joined by single spaces.
RECURSIVE JoinWords(_)
JoinWords(ws) ==
    IF ws = <<>> THEN <<>>
    ELSE IF Len(ws) = 1 THEN ws[1]
    ELSE JoinWords(Front(ws)) \o <<" ">> \o Last(ws)

\* tui.display_words(words): the chunks put on the screen.
display_words(ws) == << JoinWords(ws) >>

\* The fold of test: the characters of every chunk, in order.
RECURSIVE FlattenText(_)
FlattenText(chunks) ==
    IF chunks = <<>> THEN <<>>
    ELSE FlattenText(Front(chunks)) \o Last(chunks)

original_text == FlattenText(text)

\* ------------------------------------------------------------ process_key
\* The session-local state process_key captures, with the status it returns
\* ("Err" for an Err(..) result, "Panic" for an index out of bounds).
St(inp, typed, errs, st) ==
    [ input |-> inp, num_chars_typed |-> typed, num_errors |-> errs, status |-> st ]

\* self.tui.flush()?, the k-th adapter call of the handler, then Ok(NotDone).
Flush(inp, typed, errs, k, fail) ==
    St(inp, typed, errs, IF fail = k THEN "Err" ELSE "NotDone")

\* key_Char with num_chars_typed += 1 moved into the branch of a right
\* character.
key_Char_uncounted_miss(c, inp, typed, errs, orig, fail) ==
    LET pushed == Append(inp, c) IN
    IF Len(pushed) >= Len(orig) THEN St(pushed, typed, errs, "Done")
    ELSE IF orig[Len(pushed)] = c
         THEN IF fail \in {1, 2} THEN St(pushed, typed + 1, errs, "Err")
              ELSE Flush(pushed, typed + 1, errs, 3, fail)
         ELSE IF fail \in {1, 2} THEN St(pushed, typed, errs, "Err")
              ELSE Flush(pushed, typed, errs + 1, 3, fail)

\* key_Char refusing a wrong character: nothing is appended until the right
\* one is typed.
key_Char_holds_wrong(c, inp, typed, errs, orig, fail) ==
    LET pushed == Append(inp, c) IN
    IF Len(pushed) >= Len(orig) THEN St(pushed, typed, errs, "Done")
    ELSE LET t == typed + 1 IN
         IF orig[Len(pushed)] = c
         THEN IF fail \in {1, 2} THEN St(pushed, t, errs, "Err")
              ELSE Flush(pushed, t, errs, 3, fail)
         ELSE IF fail \in {1, 2} THEN St(inp, t, errs, "Err")
              ELSE Flush(inp, t, errs + 1, 3, fail)

\* key_Char comparing the character with the target one position too far.
key_Char_off_by_one(c, inp, typed, errs, orig, fail) ==
    LET pushed == Append(inp, c) IN
    IF Len(pushed) >= Len(orig) THEN St(pushed, typed, errs, "Done")
    ELSE LET t == typed + 1 IN
         IF orig[Len(pushed) + 1] = c
         THEN IF fail \in {1, 2} THEN St(pushed, t, errs, "Err")
              ELSE Flush(pushed, t, errs, 3, fail)
         ELSE IF fail \in {1, 2} THEN St(pushed, t, errs, "Err")
              ELSE Flush(pushed, t, errs + 1, 3, fail)

\* key_Char counting and comparing before it tests for completion: the
\* target is read at input.len() - 1 whatever its length.
key_Char_compares_first(c, inp, typed, errs, orig, fail) ==
    LET pushed == Append(inp, c)
        t == typed + 1 IN
    IF Len(pushed) > Len(orig) THEN St(pushed, t, errs, "Panic")
    ELSE LET e == IF orig[Len(pushed)] = c THEN errs ELSE errs + 1 IN
         IF Len(pushed) >= Len(orig) THEN St(pushed, t, e, "Done")
         ELSE IF fail \in {1, 2} THEN St(pushed, t, errs, "Err")
         ELSE Flush(pushed, t, e, 3, fail)

\* Key::Char(c)
key_Char(c, inp, typed, errs, orig, fail) ==
    LET pushed == Append(inp, c) IN
    IF Len(pushed) >= Len(orig) THEN St(pushed, typed, errs, "Done")
    ELSE LET t == typed + 1 IN
         IF orig[Len(pushed)] = c
         THEN IF fail \in {1, 2} THEN St(pushed, t, errs, "Err")
              ELSE Flush(pushed, t, errs, 3, fail)
         ELSE IF fail \in {1, 2} THEN St(pushed, t, errs, "Err")
              ELSE Flush(pushed, t, errs + 1, 3, fail)

\* key_Backspace taking the popped character back out of num_chars_typed.
key_Backspace_uncounts(inp, typed, errs, orig, fail) ==
    IF inp = <<>> THEN Flush(inp, typed, errs, 1, fail)
    ELSE LET popped == Front(inp)
             t == IF typed > 0 THEN typed - 1 ELSE 0 IN
         IF Len(popped) >= Len(orig) THEN St(popped, t, errs, "Panic")
         ELSE IF fail = 1 THEN St(popped, t, errs, "Err")
         ELSE Flush(popped, t, errs, 2, fail)

\* Key::Backspace
key_Backspace(inp, typed, errs, orig, fail) ==
    IF inp = <<>> THEN Flush(inp, typed, errs, 1, fail)
    ELSE LET popped == Front(inp) IN
         IF Len(popped) >= Len(orig) THEN St(popped, typed, errs, "Panic")
         ELSE IF fail = 1 THEN St(popped, typed, errs, "Err")
         ELSE Flush(popped, typed, errs, 2, fail)

\* delete_word as a loop that pops first and tests the popped character: it
\* stops once it has popped a space.
RECURSIVE delete_word_through_space(_, _, _, _)
delete_word_through_space(inp, n, orig, fail) ==
    IF inp = <<>>
    THEN [ input |-> inp, calls |-> n, status |-> "NotDone" ]
    ELSE LET popped == Front(inp) IN
         IF Len(popped) >= Len(orig)
         THEN [ input |-> popped, calls |-> n, status |-> "Panic" ]
         ELSE IF fail = n + 1
         THEN [ input |-> popped, calls |-> n + 1, status |-> "Err" ]
         ELSE IF Last(inp) = " "
         THEN [ input |-> popped, calls |-> n + 1, status |-> "NotDone" ]
         ELSE delete_word_through_space(popped, n + 1, orig, fail)

\* The while loop of Key::Ctrl('w'), after n adapter calls.
RECURSIVE delete_word(_, _, _, _)
delete_word(inp, n, orig, fail) ==
    IF inp = <<>> \/ Last(inp) = " "
    THEN [ input |-> inp, calls |-> n, status |-> "NotDone" ]
    ELSE LET popped == Front(inp) IN
         IF Len(popped) >= Len(orig)
         THEN [ input |-> popped, calls |-> n, status |-> "Panic" ]
         ELSE IF fail = n + 1
         THEN [ input |-> popped, calls |-> n + 1, status |-> "Err" ]
         ELSE delete_word(popped, n + 1, orig, fail)

\* key_CtrlW with an `if` for the `while`: one character popped at most.
key_CtrlW_one_char(inp, typed, errs, orig, fail) ==
    IF inp = <<>> \/ Last(inp) = " " THEN Flush(inp, typed, errs, 1, fail)
    ELSE LET popped == Front(inp) IN
         IF Len(popped) >= Len(orig) THEN St(popped, typed, errs, "Panic")
         ELSE IF fail = 1 THEN St(popped, typed, errs, "Err")
         ELSE Flush(popped, typed, errs, 2, fail)

\* Key::Ctrl('w')
key_CtrlW(inp, typed, errs, orig, fail) ==
    LET r == delete_word(inp, 0, orig, fail) IN
    IF r.status = "NotDone" THEN Flush(r.input, typed, errs, r.calls + 1, fail)
    ELSE St(r.input, typed, errs, r.status)

\* Any other key: the match does nothing.
key_Other(inp, typed, errs, orig, fail) ==
    Flush(inp, typed, errs, 1, fail)

\* The closure process_key.
process_key(key, inp, typed, errs, orig, fail) ==
    CASE key = CtrlC -> St(inp, typed, errs, "Quit")
      [] key = CtrlR -> St(inp, typed, errs, "Restart")
      [] key = CtrlW -> key_CtrlW(inp, typed, errs, orig, fail)
      [] key[1] = "Char" -> key_Char(key[2], inp, typed, errs, orig, fail)
      [] key = Backspace -> key_Backspace(inp, typed, errs, orig, fail)
      [] OTHER -> key_Other(inp, typed, errs, orig, fail)

\* ------------------------------------------------------------------ results
\* The fold over input.iter().zip(original_text.iter()): the pair
\* (final_chars_typed_correctly, final_uncorrected_errors).
RECURSIVE final_comparison(_, _)
final_comparison(inp, orig) ==
    LET n == IF Len(inp) < Len(orig) THEN Len(inp) ELSE Len(orig) IN
    IF n = 0 THEN << 0, 0 >>
    ELSE LET acc == final_comparison(SubSeq(inp, 1, n - 1), SubSeq(orig, 1, n - 1)) IN
         IF inp[n] = orig[n] THEN << acc[1] + 1, acc[2] >>
         ELSE << acc[1], acc[2] + 1 >>

\* make_results taking final_uncorrected_errors from the running counter.
make_results_running_errors(ws, inp, typed, errs, orig, t0, t1) ==
    LET fin == final_comparison(inp, orig) IN
    [ total_words |-> Len(ws),
      total_chars_typed |-> typed,
      total_chars_in_text |-> Len(inp),
      total_char_errors |-> errs,
      final_chars_typed_correctly |-> fin[1],
      final_uncorrected_errors |-> errs,
      started_at |-> t0,
      ended_at |-> t1 ]

\* The RustypexResults built by test.
make_results(ws, inp, typed, errs, orig, t0, t1) ==
    LET fin == final_comparison(inp, orig) IN
    [ total_words |-> Len(ws),
      total_chars_typed |-> typed,
      total_chars_in_text |-> Len(inp),
      total_char_errors |-> errs,
      final_chars_typed_correctly |-> fin[1],
      final_uncorrected_errors |-> fin[2],
      started_at |-> t0,
      ended_at |-> t1 ]

\* f64 values.
NaN == [ kind |-> "nan", num |-> 0, den |-> 1 ]
PosInf == [ kind |-> "inf", num |-> 1, den |-> 1 ]
NegInf == [ kind |-> "inf", num |-> -1, den |-> 1 ]
Fin(n, d) == [ kind |-> "fin", num |-> n, den |-> d ]

\* x / y on finite x and y, as IEEE 754 divides.
f64_div(x, y) ==
    IF y.num = 0
    THEN IF x.num = 0 THEN NaN ELSE IF x.num > 0 THEN PosInf ELSE NegInf
    ELSE IF y.num > 0 THEN Fin(x.num * y.den, x.den * y.num)
    ELSE Fin(-(x.num * y.den), x.den * (-y.num))

\* x.max(0.0) on a finite x.
f64_max0(x) == IF x.num < 0 THEN Fin(0, 1) ELSE x

\* Comparisons of f64 values; every comparison with NaN is false.
f64_lt0(x) == x.kind /= "nan" /\ x.num < 0
f64_is0(x) == x.kind = "fin" /\ x.num = 0
f64_in01(x) == x.kind = "fin" /\ 0 <= x.num /\ x.num <= x.den
f64_is1(x) == x.kind = "fin" /\ x.num = x.den

\* RustypexResults::duration
duration(r) == IF r.ended_at >= r.started_at THEN r.ended_at - r.started_at ELSE 0

\* RustypexResults::accuracy
accuracy(r) ==
    f64_div(Fin(r.total_chars_typed - r.total_char_errors, 1),
            Fin(r.total_chars_typed, 1))

\* wpm_numerator without .max(0.0).
wpm_numerator_unfloored(r) ==
    Fin(r.final_chars_typed_correctly - 5 * r.final_uncorrected_errors, 5)

\* The numerator of wpm: final_chars_typed_correctly / 5.0 less the
\* uncorrected errors, floored at 0.0.
wpm_numerator(r) ==
    f64_max0(Fin(r.final_chars_typed_correctly - 5 * r.final_uncorrected_errors, 5))

\* RustypexResults::wpm
wpm(r) == f64_div(wpm_numerator(r), Fin(duration(r), 60))

\* ------------------------------------------------------------- key scripts
\* The key sequences whose sessions are followed key by key: the target typed
\* exactly, and a wrong second character that is backspaced and retyped.
ExactScript(orig) == [ i \in 1 .. Len(orig) |-> Char(orig[i]) ]
CorrectionScript(orig) ==
    IF Len(orig) < 2 THEN ExactScript(orig)
    ELSE << Char(orig[1]), Char(WrongChar), Backspace >>
             \o SubSeq(ExactScript(orig), 2, Len(orig))
Scripts(orig) == { ExactScript(orig), CorrectionScript(orig) }

IsPrefix(s, t) == Len(s) <= Len(t) /\ s = SubSeq(t, 1, Len(s))
OffScript == << NoKey >>

\* The log after one more key.
Logged(log, key, orig) ==
    IF log /= OffScript /\ \E sc \in Scripts(orig) : IsPrefix(Append(log, key), sc)
    THEN Append(log, key)
    ELSE OffScript

\* ------------------------------------------------------------------ actions
\* An Err of the presentation adapter, wrapped into a RustypexError.
AdapterError == << "io" >>

\* The session-local state of test before any key.
Fresh == [ input |-> <<>>, num_chars_typed |-> 0, num_errors |-> 0 ]

\* StartSession with the counters kept in the Rustypex value and not reset.
StartSession_keeps_counters(ws) ==
    /\ words' = ws
    /\ text' = display_words(ws)
    /\ input' = Fresh.input
    /\ UNCHANGED << num_errors, num_chars_typed >>
    /\ status' = "NotDone"
    /\ started_at' = <<>>
    /\ ended_at' = <<>>
    /\ results' = <<>>
    /\ last_key' = NoKey
    /\ prev' = Fresh
    /\ key_log' = <<>>
    /\ results_key' = NoKey
    /\ prior' = status
    /\ pc' = "first_key"

\* StartSession reading the clock for started_at when the session is set up.
StartSession_stamps_clock(ws) ==
    /\ words' = ws
    /\ text' = display_words(ws)
    /\ input' = Fresh.input
    /\ num_errors' = Fresh.num_errors
    /\ num_chars_typed' = Fresh.num_chars_typed
    /\ status' = "NotDone"
    /\ started_at' = << now >>
    /\ ended_at' = <<>>
    /\ results' = <<>>
    /\ last_key' = NoKey
    /\ prev' = Fresh
    /\ key_log' = <<>>
    /\ results_key' = NoKey
    /\ prior' = status
    /\ pc' = "first_key"

\* Rustypex::test up to its first read of a key: the locals of a new session
\* over the words on display.
StartSession(ws) ==
    /\ words' = ws
    /\ text' = display_words(ws)
    /\ input' = Fresh.input
    /\ num_errors' = Fresh.num_errors
    /\ num_chars_typed' = Fresh.num_chars_typed
    /\ status' = "NotDone"
    /\ started_at' = <<>>
    /\ ended_at' = <<>>
    /\ results' = <<>>
    /\ last_key' = NoKey
    /\ prev' = Fresh
    /\ key_log' = <<>>
    /\ results_key' = NoKey
    /\ prior' = status
    /\ pc' = "first_key"

Init ==
    /\ num_words \in 0 .. MaxWords
    /\ words \in new_words(num_words)
    /\ text = display_words(words)
    /\ input = Fresh.input
    /\ num_errors = Fresh.num_errors
    /\ num_chars_typed = Fresh.num_chars_typed
    /\ status = "NotDone"
    /\ started_at = <<>>
    /\ ended_at = <<>>
    /\ results = <<>>
    /\ now = 0
    /\ pc = "first_key"
    /\ last_key = NoKey
    /\ prev = Fresh
    /\ key_log = <<>>
    /\ results_key = NoKey
    /\ failure = <<>>
    /\ prior = ""

\* LeaveKeyLoop with to_display_results matching Quit as well as Done.
LeaveKeyLoop_results_on_quit(st, inp, typed, errs, t0, t1, fail) ==
    /\ ended_at' = << t1 >>
    /\ results' = << make_results(words, inp, typed, errs, original_text, t0, t1) >>
    /\ pc' = CASE st \in { "Done", "Quit" } -> IF fail = 0 THEN "results" ELSE "exit_ok"
               [] st = "Restart" -> "restarting"
               [] OTHER -> "exit_ok"
    /\ failure' = IF st \in { "Done", "Quit" } /\ fail /= 0 THEN AdapterError ELSE failure

\* The rest of test once the key loop is left with status st at instant t1,
\* the session having started at t0: ended_at, the results snapshot, and
\* either the results screen or the return to main.
LeaveKeyLoop(st, inp, typed, errs, t0, t1, fail) ==
    /\ ended_at' = << t1 >>
    /\ results' = << make_results(words, inp, typed, errs, original_text, t0, t1) >>
    /\ pc' = CASE st = "Done" -> IF fail = 0 THEN "results" ELSE "exit_ok"
               [] st = "Restart" -> "restarting"
               [] OTHER -> "exit_ok"
    /\ failure' = IF st = "Done" /\ fail /= 0 THEN AdapterError ELSE failure

\* One key handled by process_key at an active session, and what test and
\* main do with the outcome before the next read.  t0 is started_at; ends
\* are the instants the clock can show when ended_at is read.
HandleKey(key, fail, t0, ends) ==
    LET r == process_key(key, input, num_chars_typed, num_errors, original_text, fail) IN
    /\ r.num_chars_typed <= MaxTyped
    /\ input' = r.input
    /\ num_chars_typed' = r.num_chars_typed
    /\ num_errors' = r.num_errors
    /\ last_key' = key
    /\ prev' = [ input |-> input, num_chars_typed |-> num_chars_typed,
                 num_errors |-> num_errors ]
    /\ key_log' = Logged(key_log, key, original_text)
    /\ started_at' = << t0 >>
    /\ UNCHANGED << num_words, words, text, results_key, prior >>
    /\ CASE r.status = "Err" ->
              /\ pc' = "exit_ok"
              /\ now' = t0
              /\ failure' = AdapterError
              /\ UNCHANGED << status, ended_at, results >>
         [] r.status = "Panic" ->
              /\ pc' = "panic"
              /\ now' = t0
              /\ UNCHANGED << status, ended_at, results, failure >>
         [] r.status = "NotDone" ->
              /\ pc' = "more_keys"
              /\ now' = t0
              /\ status' = "NotDone"
              /\ UNCHANGED << ended_at, results, failure >>
         [] OTHER ->
              /\ status' = r.status
              /\ \E t1 \in ends :
                   /\ now' = t1
                   /\ LeaveKeyLoop(r.status, r.input, r.num_chars_typed,
                                   r.num_errors, t0, t1, fail)

\* A read of the key stream that yields no key while the session is active.
\* An Err leaves test by `?`; main then breaks out of its loop.
ReadFails(rd) ==
    /\ rd = ReadError
    /\ pc' = "exit_ok"
    /\ last_key' = rd
    /\ failure' = AdapterError
    /\ UNCHANGED << num_words, words, text, input, num_errors, num_chars_typed,
                    status, started_at, ended_at, results, now, prev, key_log,
                    results_key, prior >>

\* The first key of a session: keys.next().unwrap()?, started_at, process_key.
FirstKey ==
    /\ pc = "first_key"
    /\ \E rd \in Reads(original_text, Len(input)), fail \in Fails :
           \/ /\ rd \notin { ReadError, EndOfInput }
              /\ \E t0 \in now .. MaxTime : HandleKey(rd, fail, t0, t0 .. MaxTime)
           \/ ReadFails(rd)
           \/ /\ rd = EndOfInput
              /\ pc' = "panic"
              /\ last_key' = rd
              /\ UNCHANGED << num_words, words, text, input, num_errors,
                              num_chars_typed, status, started_at, ended_at,
                              results, now, prev, key_log, results_key, failure,
                              prior >>

\* Every later key: the for loop over the key stream.
NextKey ==
    /\ pc = "more_keys"
    /\ \E rd \in Reads(original_text, Len(input)), fail \in Fails :
           \/ /\ rd \notin { ReadError, EndOfInput }
              /\ HandleKey(rd, fail, started_at[1], now .. MaxTime)
           \/ ReadFails(rd)
           \/ /\ rd = EndOfInput
              /\ last_key' = rd
              /\ \E t1 \in now .. MaxTime :
                   /\ now' = t1
                   /\ LeaveKeyLoop(status, input, num_chars_typed, num_errors,
                                   started_at[1], t1, 0)
              /\ UNCHANGED << num_words, words, text, input, num_errors,
                              num_chars_typed, status, started_at, prev, key_log,
                              results_key, prior >>

\* display_results_key leaving the results screen on any key.
display_results_key_any_key(rd, fail) ==
    CASE rd = EndOfInput -> "panic"
      [] rd = ReadError -> "exit_ok"
      [] rd = CtrlR -> IF fail = 1 THEN "exit_ok" ELSE "restarting"
      [] OTHER -> "exit_ok"

\* Where the program is after display_results has read rd: the match of its
\* key loop, show_cursor (its one adapter call, failing when fail = 1), the
\* return of test and the `if let` of main.
display_results_key(rd, fail) ==
    CASE rd = EndOfInput -> "panic"
      [] rd = ReadError -> "exit_ok"
      [] rd = CtrlR -> IF fail = 1 THEN "exit_ok" ELSE "restarting"
      [] rd = CtrlC -> "exit_ok"
      [] OTHER -> "results"

\* One key read by the loop of display_results.
ResultsKey ==
    /\ pc = "results"
    /\ \E rd \in Reads(original_text, Len(input)), fail \in Fails :
         /\ pc' = display_results_key(rd, fail)
         /\ results_key' = rd
         /\ failure' = IF rd = ReadError \/ (rd \in { CtrlR, CtrlC } /\ fail = 1)
                        THEN AdapterError ELSE failure
         /\ UNCHANGED << num_words, words, text, input, num_errors, num_chars_typed,
                         status, started_at, ended_at, results, now, last_key, prev,
                         key_log, prior >>

\* main after test returned Ok((true, _)): restart()?, then the next test.
MainRestart ==
    /\ pc = "restarting"
    /\ \E fail \in Fails, ws \in new_words(num_words) :
         /\ UNCHANGED << num_words, now >>
         /\ IF fail \in 1 .. 3
            THEN /\ pc' = "exit_err"
                 /\ words' = IF fail = 1 THEN words ELSE ws
                 /\ failure' = AdapterError
                 /\ UNCHANGED << text, input, num_errors, num_chars_typed, status,
                                 started_at, ended_at, results, last_key, prev,
                                 key_log, results_key, prior >>
            ELSE /\ StartSession(ws)
                 /\ UNCHANGED failure

Next == FirstKey \/ NextKey \/ ResultsKey \/ MainRestart

Spec == Init /\ [][Next]_vars

\* ------------------------------------------------------------------- claims
\* A key of the session reached process_key.
KeyHandled == last_key[1] \in { "Char", "Ctrl", "Backspace", "Other" }

\* ... and process_key returned Ok for it (no adapter call failed, no panic).
KeyApplied == KeyHandled /\ ~(status = "NotDone" /\ pc \in { "exit_ok", "panic" })

\* The number of positions of inp that differ from orig.
Mismatches(inp, orig) ==
    Cardinality({ i \in 1 .. Len(inp) : i > Len(orig) \/ inp[i] /= orig[i] })

\* C1: in every state a session reaches, whatever the target text and the
\* keys, 0 <= input.len() <= original_text.len(), the state right after the
\* completing keystroke included.
C1_InputWithinTarget ==
    0 <= Len(input) /\ Len(input) <= Len(original_text)

\* C2: in every reachable state num_errors <= num_chars_typed, and no key
\* event lowers either counter.
C2_ErrorsBoundedMonotonic ==
    /\ num_errors <= num_chars_typed
    /\ prev.num_chars_typed <= num_chars_typed
    /\ prev.num_errors <= num_errors

\* C2 witness: an error was counted and the wrong character was then removed.
C2_Witness ==
    /\ last_key = Backspace
    /\ Len(input) < Len(prev.input)
    /\ num_errors > 0
    /\ Mismatches(input, original_text) = 0

\* C3: a backspace and a word-delete leave num_chars_typed and num_errors as
\* they were, however many characters the event removes (zero included).
C3_CorrectionsKeepCounters ==
    last_key \in { Backspace, CtrlW } =>
        /\ num_chars_typed = prev.num_chars_typed
        /\ num_errors = prev.num_errors

\* C3 witness: a word-delete removed two characters or more of a session
\* that had counted keystrokes and an error.
C3_Witness ==
    /\ last_key = CtrlW
    /\ KeyApplied
    /\ Len(prev.input) >= Len(input) + 2
    /\ num_chars_typed >= 2
    /\ num_errors >= 1

\* C4: every character key a session processes, the completing one included,
\* adds exactly 1 to num_chars_typed, and adds 1 to num_errors exactly when
\* the character differs from the target's at its position.
C4_EveryCharKeyCounted ==
    (last_key[1] = "Char" /\ KeyApplied) =>
        LET p == Len(prev.input) IN
        /\ num_chars_typed = prev.num_chars_typed + 1
        /\ num_errors = prev.num_errors
             + (IF p < Len(original_text) /\ original_text[p + 1] = last_key[2]
                THEN 0 ELSE 1)

\* The keys of scenario C on the target "cat": c, x, backspace, a, t.
ScenarioCText == << "c", "a", "t" >>
ScenarioCKeys == << Char("c"), Char("x"), Backspace, Char("a"), Char("t") >>

\* C5: a mistyped character that is backspaced and retyped stays counted:
\* on the target "cat" the keys c, x, backspace, a, t end in Done with "cat"
\* in the buffer, num_chars_typed = 4, num_errors = 1 and
\* final_uncorrected_errors = 0.
C5_CorrectedMistakeStaysCounted ==
    (original_text = ScenarioCText /\ key_log = ScenarioCKeys) =>
        /\ status = "Done"
        /\ input = ScenarioCText
        /\ num_chars_typed = 4
        /\ num_errors = 1
        /\ results /= <<>>
        /\ results[1].final_uncorrected_errors = 0

\* C6: a word-delete on a non-empty buffer removes at least one character,
\* whatever the buffer holds, a buffer that ends in a space included.
C6_WordDeleteRemovesSomething ==
    (last_key = CtrlW /\ prev.input /= <<>>) => Len(input) < Len(prev.input)

\* C6 as amended: a word-delete on a non-empty buffer removes at least one
\* character exactly when the buffer's last character is not a space; on a
\* buffer that ends in a space it removes nothing.
C6_WordDeleteRemovesUnlessSpace ==
    (last_key = CtrlW /\ prev.input /= <<>>) =>
        IF Last(prev.input) = " "
        THEN input = prev.input
        ELSE Len(input) < Len(prev.input)

\* C6 witness: a word-delete met a buffer that ends in a space.
C6_Witness ==
    /\ last_key = CtrlW
    /\ KeyApplied
    /\ prev.input /= <<>>
    /\ Last(prev.input) = " "
    /\ input = prev.input

\* What the word-delete of the specification leaves: characters are popped
\* until the popped one was a space or the buffer is empty.
RECURSIVE PopThroughSpace(_)
PopThroughSpace(inp) ==
    IF inp = <<>> THEN inp
    ELSE IF Last(inp) = " " THEN Front(inp)
    ELSE PopThroughSpace(Front(inp))

\* C7: a word-delete pops until the popped character was a space or the
\* buffer is empty: the trailing run of non-space characters goes, and the
\* one space before it as well ("cat dog fo" becomes "cat dog").
C7_WordDeleteTakesTheSpace ==
    (last_key = CtrlW /\ KeyApplied) => input = PopThroughSpace(prev.input)

\* C7 as amended: a word-delete pops while the last character is not a space
\* and the buffer is not empty.  It removes the trailing run of non-space
\* characters and nothing else; the space before the run stays ("cat dog fo"
\* becomes "cat dog ").
C7_WordDeleteKeepsTheSpace ==
    last_key = CtrlW =>
        /\ IsPrefix(input, prev.input)
        /\ \A i \in Len(input) + 1 .. Len(prev.input) : prev.input[i] /= " "
        /\ KeyApplied => (input = <<>> \/ Last(input) = " ")

\* C7 witness: a word-delete removed a run of characters and stopped at a
\* space, which it kept.
C7_Witness ==
    /\ last_key = CtrlW
    /\ KeyApplied
    /\ Len(input) < Len(prev.input)
    /\ input /= <<>>
    /\ Last(input) = " "

\* C8: the characters of a non-empty target typed in order, and no other
\* key, end in Done with accuracy 1 (num_chars_typed > 0, num_errors = 0) and
\* final_uncorrected_errors = 0, a target of one character included.
C8_ExactTypingIsPerfect ==
    (original_text /= <<>> /\ key_log = ExactScript(original_text)) =>
        /\ status = "Done"
        /\ results /= <<>>
        /\ results[1].total_chars_typed > 0
        /\ results[1].total_char_errors = 0
        /\ f64_is1(accuracy(results[1]))
        /\ results[1].final_uncorrected_errors = 0

\* C9: for every results snapshot a session builds, accuracy lies in [0, 1]
\* when total_chars_typed > 0 and is 0 when total_chars_typed = 0.
C9_AccuracyDefined ==
    results /= <<>> =>
        IF results[1].total_chars_typed > 0
        THEN f64_in01(accuracy(results[1]))
        ELSE f64_is0(accuracy(results[1]))

\* More uncorrected errors than a fifth of the correct characters.
Penalised(r) == 5 * r.final_uncorrected_errors > r.final_chars_typed_correctly

\* C10: for every results snapshot wpm is not negative, and a snapshot with
\* more uncorrected errors than final_chars_typed_correctly / 5 has wpm = 0.
C10_WpmFlooredAtZero ==
    results /= <<>> =>
        /\ ~f64_lt0(wpm(results[1]))
        /\ Penalised(results[1]) => f64_is0(wpm(results[1]))

\* C10 as amended: for every results snapshot wpm is not negative; a snapshot
\* with more uncorrected errors than final_chars_typed_correctly / 5 has
\* wpm = 0 when ended_at is later than started_at, and NaN (0.0 / 0.0) when
\* the two instants are the same.
C10_WpmNeverNegative ==
    results /= <<>> =>
        /\ ~f64_lt0(wpm(results[1]))
        /\ Penalised(results[1]) =>
             IF duration(results[1]) > 0
             THEN f64_is0(wpm(results[1]))
             ELSE wpm(results[1]) = NaN

\* C10 witness: a session that took time ended Done with more uncorrected
\* errors than a fifth of its correct characters.
C10_Witness ==
    /\ results /= <<>>
    /\ status = "Done"
    /\ Penalised(results[1])
    /\ results[1].final_chars_typed_correctly > 0
    /\ duration(results[1]) > 0

\* C11: every session that main starts after a restart begins with an empty
\* input buffer, num_chars_typed = 0 and num_errors = 0, and with no key
\* processed and no instant taken, whatever the session before it held.
C11_RestartedSessionIsFresh ==
    (pc = "first_key" /\ prior /= "") =>
        /\ input = <<>>
        /\ num_chars_typed = 0
        /\ num_errors = 0
        /\ status = "NotDone"
        /\ last_key = NoKey
        /\ key_log = <<>>
        /\ started_at = <<>>
        /\ ended_at = <<>>
        /\ results = <<>>

\* C11 witness: a new session stands at its first key after a session that
\* was typed to completion.
C11_Witness ==
    /\ pc = "first_key"
    /\ prior = "Done"
    /\ input = <<>>

\* C12: an adapter failure raised while a session is active ends the program
\* with that error returned from main, and never with the success a quit
\* gives.
C12_AdapterFailureReturnedByMain ==
    failure /= <<>> => pc = "exit_err"

\* C13: the quit key gives Quit and the restart key gives Restart, both with
\* the input buffer and the two counters as they were; the session then
\* reads no further key and shows no results screen.
C13_QuitAndRestartAreTerminal ==
    /\ last_key = CtrlC =>
         /\ status = "Quit"
         /\ pc = "exit_ok"
    /\ last_key = CtrlR =>
         /\ status = "Restart"
         /\ pc \in { "restarting", "exit_err" }
    /\ last_key \in { CtrlC, CtrlR } =>
         /\ input = prev.input
         /\ num_chars_typed = prev.num_chars_typed
         /\ num_errors = prev.num_errors
         /\ results_key = NoKey
         /\ ended_at /= <<>>

\* C13 witness: the restart key ended a session that had text in its buffer
\* and a counted error.
C13_Witness ==
    /\ last_key = CtrlR
    /\ pc = "restarting"
    /\ input /= <<>>
    /\ num_errors > 0

\* The positions of the target at which the final buffer holds the target's
\* character, and those at which it holds another.
FinalRight == { i \in 1 .. Len(original_text) :
                  i <= Len(input) /\ input[i] = original_text[i] }
FinalWrong == { i \in 1 .. Len(original_text) :
                  i <= Len(input) /\ input[i] /= original_text[i] }

\* C14: when a session is Done its results hold, from the final buffer and
\* not from the running counter, the number of positions that equal the
\* target and the number that differ; the two add up to the target's length.
C14_FinalCountsFromBuffer ==
    status = "Done" =>
        /\ results /= <<>>
        /\ results[1].final_chars_typed_correctly = Cardinality(FinalRight)
        /\ results[1].final_uncorrected_errors = Cardinality(FinalWrong)
        /\ results[1].final_chars_typed_correctly
             + results[1].final_uncorrected_errors = Len(original_text)

\* C14 witness: a completed session whose final buffer has right and wrong
\* positions, the wrong ones fewer than the errors counted on the way.
C14_Witness ==
    /\ status = "Done"
    /\ results /= <<>>
    /\ results[1].final_chars_typed_correctly > 0
    /\ results[1].final_uncorrected_errors > 0
    /\ results[1].final_uncorrected_errors < num_errors

\* C15: a session is Done exactly when its last key was a character key that
\* made the length of the input buffer equal to the length of the target.
C15_DoneExactlyAtTargetLength ==
    status = "Done" <=>
        /\ last_key[1] = "Char"
        /\ KeyApplied
        /\ Len(input) = Len(original_text)

\* C16: a character key appends its character to the input buffer, one
\* position further, whether or not it matches the target there.
C16_CharKeyAlwaysAppends ==
    last_key[1] = "Char" =>
        /\ input = Append(prev.input, last_key[2])
        /\ Len(input) = Len(prev.input) + 1

\* C16 witness: a wrong character was appended and typing went on.
C16_Witness ==
    /\ last_key = Char(WrongChar)
    /\ pc = "more_keys"
    /\ input = Append(prev.input, WrongChar)
    /\ original_text[Len(input)] /= WrongChar

\* What the results screen did with the last key it read, and what main did
\* with what test returned.
C17_Loop ==
    /\ pc = "results" => (status = "Done" /\ results_key \notin { CtrlR, CtrlC })
    /\ pc = "restarting" =>
         \/ status = "Restart" /\ results_key = NoKey
         \/ status = "Done" /\ results_key = CtrlR
    /\ (pc = "exit_ok" /\ failure = <<>>) =>
         \/ status = "Quit" /\ results_key = NoKey
         \/ status = "Done" /\ results_key = CtrlC
         \/ status = "NotDone" /\ last_key = EndOfInput
    /\ (pc = "first_key" /\ prior /= "") => prior \in { "Restart", "Done" }
    /\ results_key \in { CtrlR, CtrlC } => pc /= "results"
    /\ status = "Quit" => pc = "exit_ok"

\* C17: main starts a new session after Restart and after Done followed by
\* the restart key on the results screen, and exits after Quit and after Done
\* followed by the quit key; every other key on the results screen is
\* ignored.  A failing adapter call or key read ends the program instead.
C17_ProgramLoop ==
    /\ []C17_Loop
    /\ [][ /\ (pc = "restarting" /\ failure' = <<>>) =>
                (pc' = "first_key" /\ prior' = status)
           /\ (pc = "results" /\ failure' = <<>> /\ pc' /= "panic") =>
                pc' = CASE results_key' = CtrlR -> "restarting"
                        [] results_key' = CtrlC -> "exit_ok"
                        [] OTHER -> "results"
           /\ pc \in { "exit_ok", "exit_err", "panic" } => pc' = pc ]_vars

\* C17 witness: a session was completed, a key other than the two was
\* pressed on the results screen, and the screen is still up.
C17_Witness ==
    /\ pc = "results"
    /\ results_key = OtherKey
    /\ prior = "Done"

\* The instants a session holds at each point of its life.
C18_Instants ==
    /\ pc = "first_key" => (started_at = <<>> /\ ended_at = <<>>)
    /\ KeyHandled => started_at /= <<>>
    /\ started_at /= <<>> => started_at[1] <= now
    /\ ended_at /= <<>> => ended_at[1] <= now
    /\ pc = "more_keys" => (started_at /= <<>> /\ ended_at = <<>>)
    /\ status \in { "Done", "Quit", "Restart" } => ended_at /= <<>>
    /\ ended_at /= <<>> =>
         /\ started_at /= <<>>
         /\ started_at[1] <= ended_at[1]
         /\ results /= <<>>
         /\ results[1].started_at = started_at[1]
         /\ results[1].ended_at = ended_at[1]

\* C18: started_at is taken once, when the first key of the session arrives
\* and before the key acts, never when the session is set up; ended_at is
\* taken when the key loop is left; started_at <= ended_at.
C18_ClockReads ==
    /\ []C18_Instants
    /\ [][ /\ (started_at = <<>> /\ started_at' /= <<>>) =>
                (pc = "first_key" /\ pc' /= "first_key" /\ last_key' /= NoKey
                 /\ now <= started_at'[1])
           /\ (started_at /= <<>> /\ pc' /= "first_key") => started_at' = started_at
           /\ (ended_at = <<>> /\ ended_at' /= <<>>) =>
                (pc \in { "first_key", "more_keys" } /\ ended_at'[1] = now'
                 /\ (status' \in { "Done", "Quit", "Restart" } \/ last_key' = EndOfInput))
           /\ (ended_at /= <<>> /\ pc' /= "first_key") => ended_at' = ended_at ]_vars

\* C18 witness: a session completed at an instant later than its first key.
C18_Witness ==
    /\ status = "Done"
    /\ started_at /= <<>>
    /\ ended_at /= <<>>
    /\ started_at[1] < ended_at[1]
    /\ Len(key_log) >= 2

\* C19: while a session is in progress the positions of the input buffer
\* that differ from the target are at most num_errors.
C19_MismatchesWithinErrors ==
    pc \in { "first_key", "more_keys" } =>
        Mismatches(input, original_text) <= num_errors

\* C19 witness: a session in progress with a wrong character in its buffer
\* and more errors counted than the buffer shows.
C19_Witness ==
    /\ pc = "more_keys"
    /\ Mismatches(input, original_text) >= 1
    /\ num_errors > Mismatches(input, original_text)

\* C20: process_key reads the target only inside its bounds, for every
\* target, the empty one included; a backspace or a word-delete on an empty
\* buffer reads nothing and changes nothing.
C20_TargetReadsInBounds ==
    /\ ~(KeyHandled /\ status = "NotDone" /\ pc = "panic")
    /\ (last_key[1] = "Char" /\ status = "NotDone") =>
         (1 <= Len(input) /\ Len(input) <= Len(original_text))
    /\ (last_key \in { Backspace, CtrlW } /\ Len(input) < Len(prev.input)) =>
         Len(prev.input) <= Len(original_text)
    /\ (last_key \in { Backspace, CtrlW } /\ prev.input = <<>>) =>
         /\ input = <<>>
         /\ num_chars_typed = prev.num_chars_typed
         /\ num_errors = prev.num_errors

\* C20 witness: on the empty target a backspace met the empty buffer and the
\* session went on.
C20_Witness ==
    /\ original_text = <<>>
    /\ last_key = Backspace
    /\ prev.input = <<>>
    /\ pc = "more_keys"

====
